---------------------------- MODULE Spec2Model ----------------------------
(***************************************************************************)
(* Lead Enricher: domain normalisation, alias resolution, the account      *)
(* index, the per-lead match classification loop and the e-mail duplicate  *)
(* grouper of src/app.py, with the library normaliser of                   *)
(* src/loaders/normalize.py.                                               *)
(*                                                                         *)
(* A Python str is a sequence of one-character strings.  None and NaN are  *)
(* one-element sequences holding a token that is no character, so that a   *)
(* cell of a table can be compared with any other cell.                    *)
(***************************************************************************)
EXTENDS Integers, Sequences, FiniteSets, TLC

VARIABLES
    pc,                          \* position in the script
    collapse_subdomains,         \* sidebar toggle, app.py:163
    treat_personal_as_unmatched, \* sidebar toggle, app.py:164
    sf_accounts,                 \* account directory as loaded, app.py:181
    alias_df,                    \* alias directory as loaded, app.py:182
    leads,                       \* uploaded lead batch, app.py:238
    accounts_df,                 \* working copy of the directory, app.py:200
    domain_to_accounts,          \* app.py:207
    alias_map,                   \* app.py:213
    work,                        \* app.py:271
    suggested_ids,               \* app.py:287
    suggested_names,             \* app.py:288
    reasons,                     \* app.py:289
    confidences,                 \* app.py:290
    candidate_counts,            \* app.py:291
    candidates_list,             \* app.py:292
    matched_df,                  \* app.py:347
    ambiguous_df,                \* app.py:348
    unmatched_df,                \* app.py:349
    enriched_df,                 \* app.py:352
    dedupe_df,                   \* app.py:352
    nd_impl,                     \* which normalize_domain is called
    nd_input,                    \* argument of the first call
    nd_results                   \* results of the successive calls

vars == << pc, collapse_subdomains, treat_personal_as_unmatched, sf_accounts,
           alias_df, leads, accounts_df, domain_to_accounts, alias_map, work,
           suggested_ids, suggested_names, reasons, confidences,
           candidate_counts, candidates_list, matched_df, ambiguous_df,
           unmatched_df, enriched_df, dedupe_df, nd_impl, nd_input,
           nd_results >>

-----------------------------------------------------------------------------
(* Python values and str methods                                           *)

None == <<"None">>
NaN == <<"NaN">>

\* The characters of the model and ord() of each.
UpperCase == <<"A", "B", "C", "D", "E", "F", "G", "H", "I", "J", "K", "L", "M",
               "N", "O", "P", "Q", "R", "S", "T", "U", "V", "W", "X", "Y", "Z">>

LowerCase == <<"a", "b", "c", "d", "e", "f", "g", "h", "i", "j", "k", "l", "m",
               "n", "o", "p", "q", "r", "s", "t", "u", "v", "w", "x", "y", "z">>

Digits == <<"0", "1", "2", "3", "4", "5", "6", "7", "8", "9">>

Whitespace == {" ", "\t", "\n", "\r"}

Punctuation == {"\t", "\n", "\r", " ", "#", "-", ".", "/", ":", "?", "@", "|"}

Letters(table) == {table[k] : k \in 1..Len(table)}

IndexOf(c, table) == CHOOSE i \in 1..Len(table) : table[i] = c

\* ord(c), a table over the characters of the model
Ord ==
    [c \in Letters(LowerCase) \cup Letters(UpperCase) \cup Letters(Digits)
           \cup Punctuation |->
        IF c \in Letters(LowerCase) THEN 96 + IndexOf(c, LowerCase)
        ELSE IF c \in Letters(UpperCase) THEN 64 + IndexOf(c, UpperCase)
        ELSE IF c \in Letters(Digits) THEN 47 + IndexOf(c, Digits)
        ELSE CASE c = "\t" -> 9
               [] c = "\n" -> 10
               [] c = "\r" -> 13
               [] c = " " -> 32
               [] c = "#" -> 35
               [] c = "-" -> 45
               [] c = "." -> 46
               [] c = "/" -> 47
               [] c = ":" -> 58
               [] c = "?" -> 63
               [] c = "@" -> 64
               [] c = "|" -> 124]

\* c.lower() for the upper-case letters, a table
ToLower == [c \in Letters(UpperCase) |-> LowerCase[IndexOf(c, UpperCase)]]

LowerChar(c) == IF c \in DOMAIN ToLower THEN ToLower[c] ELSE c

isna(x) == x = None \/ x = NaN

\* bool(x): None and "" are falsy, NaN (a float that is not 0) is truthy.
Truthy(x) == x # None /\ x # <<>>

\* str(x)
str(x) == IF x = NaN THEN <<"n", "a", "n">>
          ELSE IF x = None THEN <<"N", "o", "n", "e">>
          ELSE x

lower(s) == [i \in 1..Len(s) |-> LowerChar(s[i])]

RECURSIVE lstrip(_)
lstrip(s) == IF s # <<>> /\ Head(s) \in Whitespace THEN lstrip(Tail(s)) ELSE s

RECURSIVE rstrip(_)
rstrip(s) == IF s # <<>> /\ s[Len(s)] \in Whitespace
             THEN rstrip(SubSeq(s, 1, Len(s) - 1)) ELSE s

strip(s) == rstrip(lstrip(s))

\* c in s, for a value that may be None or NaN
HasChar(s, c) == s # None /\ s # NaN /\ \E i \in 1..Len(s) : s[i] = c

startswith(s, p) == Len(s) >= Len(p) /\ SubSeq(s, 1, Len(p)) = p

\* s.split(sep) for a one-character separator: the list of the pieces.
\* done holds the finished pieces, piece the one being read, rest the unread text.
RECURSIVE SplitLoop(_, _, _, _)
SplitLoop(rest, sep, done, piece) ==
    IF rest = <<>> THEN Append(done, piece)
    ELSE IF Head(rest) = sep THEN SplitLoop(Tail(rest), sep, Append(done, piece), <<>>)
    ELSE SplitLoop(Tail(rest), sep, done, Append(piece, Head(rest)))

split(s, sep) == SplitLoop(s, sep, <<>>, <<>>)

\* sep.join(parts)
RECURSIVE join(_, _)
join(sep, parts) ==
    IF parts = <<>> THEN <<>>
    ELSE IF Len(parts) = 1 THEN parts[1]
    ELSE parts[1] \o sep \o join(sep, Tail(parts))

\* s.count(c)
count(s, c) == Len(SelectSeq(s, LAMBDA x : x = c))

\* parts[-n:]
LastN(parts, n) == IF Len(parts) <= n THEN parts
                   ELSE SubSeq(parts, Len(parts) - n + 1, Len(parts))

\* parts[:n]
FirstN(parts, n) == IF Len(parts) <= n THEN parts ELSE SubSeq(parts, 1, n)

\* re.sub(r"^https?://", "", d)
StripScheme(d) ==
    IF startswith(d, <<"h", "t", "t", "p", ":", "/", "/">>)
    THEN SubSeq(d, 8, Len(d))
    ELSE IF startswith(d, <<"h", "t", "t", "p", "s", ":", "/", "/">>)
    THEN SubSeq(d, 9, Len(d))
    ELSE d

\* re.sub(r"^www\.", "", d)
StripWww(d) ==
    IF startswith(d, <<"w", "w", "w", ".">>) THEN SubSeq(d, 5, Len(d)) ELSE d

\* the naive sub-domain collapse shared by both normalisers
CollapseLabels(d, collapse) ==
    IF collapse /\ count(d, ".") >= 2
    THEN join(<<".">>, LastN(split(d, "."), 2))
    ELSE d

-----------------------------------------------------------------------------
(* Normalisation helpers of app.py, which shadow the imported ones         *)

safe_str(x) == IF isna(x) THEN <<>> ELSE str(x)

\* faulty variant: the test for "@" is missing
extract_email_domain_NoAtTest(email) ==
    IF isna(email) THEN None
    ELSE LET parts == split(lower(strip(str(email))), "@")
         IN strip(parts[Len(parts)])

extract_email_domain(email) ==
    IF isna(email) THEN None
    ELSE LET s == lower(strip(str(email)))
         IN IF count(s, "@") = 0 THEN None
            ELSE LET parts == split(s, "@") IN strip(parts[Len(parts)])

\* faulty variant: the text before the first "/" is not stripped again
normalize_domain_NoStrip(domain, collapse) ==
    IF ~Truthy(domain) THEN None
    ELSE LET d3 == split(StripWww(StripScheme(lower(strip(str(domain))))), "/")[1]
         IN IF d3 = <<>> THEN None ELSE CollapseLabels(d3, collapse)

normalize_domain(domain, collapse) ==
    IF ~Truthy(domain) THEN None
    ELSE LET d0 == lower(strip(str(domain)))
             d1 == StripScheme(d0)
             d2 == StripWww(d1)
             d3 == strip(split(d2, "/")[1])
         IN IF d3 = <<>> THEN None ELSE CollapseLabels(d3, collapse)

normalize_website_to_domain(website, collapse) ==
    IF isna(website) THEN None ELSE normalize_domain(str(website), collapse)

(* The library normaliser, imported at app.py:9 and then shadowed          *)

loaders_normalize_domain(domain, collapse) ==
    IF isna(domain) THEN None
    ELSE LET d0 == lower(strip(str(domain)))
         IN IF d0 = <<>> THEN None
            ELSE LET d1 == StripScheme(d0)
                     d2 == StripWww(d1)
                     d3 == strip(split(d2, "/")[1])
                     d4 == strip(split(d3, "?")[1])
                     d5 == strip(split(d4, "#")[1])
                 IN IF d5 = <<>> THEN None
                    ELSE LET d6 == CollapseLabels(d5, collapse)
                         IN IF d6 = <<>> THEN None ELSE d6

\* Built-in personal domains
DEFAULT_PERSONAL_DOMAINS ==
    {
      <<"g", "m", "a", "i", "l", ".", "c", "o", "m">>,
      <<"g", "o", "o", "g", "l", "e", "m", "a", "i", "l", ".", "c", "o", "m">>,
      <<"y", "a", "h", "o", "o", ".", "c", "o", "m">>,
      <<"y", "m", "a", "i", "l", ".", "c", "o", "m">>,
      <<"o", "u", "t", "l", "o", "o", "k", ".", "c", "o", "m">>,
      <<"h", "o", "t", "m", "a", "i", "l", ".", "c", "o", "m">>,
      <<"l", "i", "v", "e", ".", "c", "o", "m">>,
      <<"m", "s", "n", ".", "c", "o", "m">>,
      <<"i", "c", "l", "o", "u", "d", ".", "c", "o", "m">>,
      <<"m", "e", ".", "c", "o", "m">>,
      <<"m", "a", "c", ".", "c", "o", "m">>,
      <<"a", "o", "l", ".", "c", "o", "m">>,
      <<"p", "r", "o", "t", "o", "n", ".", "m", "e">>,
      <<"p", "r", "o", "t", "o", "n", "m", "a", "i", "l", ".", "c", "o", "m">>,
      <<"g", "m", "x", ".", "c", "o", "m">>,
      <<"g", "m", "x", ".", "n", "e", "t">> }

-----------------------------------------------------------------------------
(* Tables and dicts                                                        *)

\* pd.DataFrame(): no columns, no rows
EmptyFrame == [columns |-> <<>>, rows |-> <<>>]

email_col == "Email"

\* {} and the dict operations the script uses; a dict is a function on its keys
EmptyDict == <<>>

DictGet(m, k, default) == IF k \in DOMAIN m THEN m[k] ELSE default

DictSet(m, k, v) == (k :> v) @@ m

\* df[col] = values, for a column the frame does not hold yet
WithColumn(df, col, values) ==
    [columns |-> Append(df.columns, col),
     rows |-> [i \in 1..Len(df.rows) |-> df.rows[i] @@ (col :> values[i])]]

\* df[mask], for a boolean mask with one entry per row
RECURSIVE MaskRows(_, _)
MaskRows(rows, mask) ==
    IF rows = <<>> THEN <<>>
    ELSE (IF Head(mask) THEN <<Head(rows)>> ELSE <<>>)
             \o MaskRows(Tail(rows), Tail(mask))

WhereRows(df, mask) == [columns |-> df.columns, rows |-> MaskRows(df.rows, mask)]

\* df.drop(columns=[col])
DropColumn(df, col) ==
    [columns |-> SelectSeq(df.columns, LAMBDA c : c # col),
     rows |-> [i \in 1..Len(df.rows) |->
                  [c \in (DOMAIN df.rows[i]) \ {col} |-> df.rows[i][c]]]]

Column(df, col) == [i \in 1..Len(df.rows) |-> df.rows[i][col]]

-----------------------------------------------------------------------------
(* Library: account index and alias map                                    *)

\* accounts_df["WebsiteDomainNormalized"] = ...; dropna(subset=[...])
NormalizedAccounts(rows, collapse) ==
    SelectSeq(
        [i \in 1..Len(rows) |->
            rows[i] @@ ("WebsiteDomainNormalized" :>
                           normalize_website_to_domain(rows[i].Website, collapse))],
        LAMBDA r : ~isna(r.WebsiteDomainNormalized))

\* faulty variant: a later account of a domain replaces the earlier ones
RECURSIVE BuildIndexOverwrite(_, _)
BuildIndexOverwrite(rows, index) ==
    IF rows = <<>> THEN index
    ELSE BuildIndexOverwrite(Tail(rows),
             DictSet(index, Head(rows).WebsiteDomainNormalized, <<Head(rows)>>))

\* for _, r in accounts_df.iterrows(): domain_to_accounts.setdefault(d, []).append(r)
RECURSIVE BuildIndex(_, _)
BuildIndex(rows, index) ==
    IF rows = <<>> THEN index
    ELSE LET r == Head(rows)
             d == r.WebsiteDomainNormalized
         IN BuildIndex(Tail(rows),
                       DictSet(index, d, Append(DictGet(index, d, <<>>), r)))

\* faulty variant: the first record of an input domain wins
RECURSIVE AliasLoopFirstWins(_, _, _)
AliasLoopFirstWins(rows, collapse, m) ==
    IF rows = <<>> THEN m
    ELSE LET r == Head(rows)
             inp == normalize_domain(r.InputDomain, collapse)
             can == normalize_domain(r.CanonicalDomain, collapse)
         IN AliasLoopFirstWins(Tail(rows), collapse,
                IF Truthy(inp) /\ Truthy(can) /\ inp \notin DOMAIN m
                THEN DictSet(m, inp, can) ELSE m)

\* for _, r in alias_df.iterrows(): m[inp] = can when both are truthy
RECURSIVE AliasLoop(_, _, _)
AliasLoop(rows, collapse, m) ==
    IF rows = <<>> THEN m
    ELSE LET r == Head(rows)
             inp == normalize_domain(r.InputDomain, collapse)
             can == normalize_domain(r.CanonicalDomain, collapse)
         IN AliasLoop(Tail(rows), collapse,
                      IF Truthy(inp) /\ Truthy(can) THEN DictSet(m, inp, can) ELSE m)

build_alias_map(rows, collapse) == AliasLoop(rows, collapse, EmptyDict)

canonicalize(d, m) == IF ~Truthy(d) THEN None ELSE DictGet(m, d, d)

LoadLibrary ==
    /\ pc = "start"
    /\ accounts_df' = NormalizedAccounts(sf_accounts, collapse_subdomains)
    /\ domain_to_accounts' = BuildIndex(accounts_df', EmptyDict)
    /\ alias_map' = build_alias_map(alias_df, collapse_subdomains)
    /\ pc' = "mapped"
    /\ UNCHANGED << collapse_subdomains, treat_personal_as_unmatched,
                    sf_accounts, alias_df, leads, work, suggested_ids,
                    suggested_names, reasons, confidences, candidate_counts,
                    candidates_list, matched_df, ambiguous_df, unmatched_df,
                    enriched_df, dedupe_df, nd_impl, nd_input, nd_results >>

-----------------------------------------------------------------------------
(* Enrichment: the "Enrich Leads" button                                   *)

\* work = leads.copy() and the three derived domain columns; the result lists
ExtractDomains ==
    /\ pc = "mapped"
    /\ LET raw == [i \in 1..Len(leads.rows) |->
                      extract_email_domain(leads.rows[i][email_col])]
           norm == [i \in 1..Len(raw) |->
                      normalize_domain(raw[i], collapse_subdomains)]
           canon == [i \in 1..Len(norm) |-> canonicalize(norm[i], alias_map)]
       IN work' = WithColumn(WithColumn(WithColumn(leads,
                      "EmailDomainRaw", raw),
                      "EmailDomainNormalized", norm),
                      "DomainCanonical", canon)
    /\ suggested_ids' = <<>>
    /\ suggested_names' = <<>>
    /\ reasons' = <<>>
    /\ confidences' = <<>>
    /\ candidate_counts' = <<>>
    /\ candidates_list' = <<>>
    /\ pc' = "classify"
    /\ UNCHANGED << collapse_subdomains, treat_personal_as_unmatched,
                    sf_accounts, alias_df, leads, accounts_df,
                    domain_to_accounts, alias_map, matched_df, ambiguous_df,
                    unmatched_df, enriched_df, dedupe_df, nd_impl, nd_input,
                    nd_results >>

MaxCandidates == 10

Bar == <<"|">>

\* f'{safe_str(a.get("AccountId"))}|{safe_str(a.get("AccountName"))}|{d}'
Packed(a, d) == safe_str(a.AccountId) \o Bar \o safe_str(a.AccountName) \o Bar \o d

\* faulty variant: every candidate is listed, without the cap
PackedCandidatesUncapped(candidates, d) ==
    [k \in 1..Len(candidates) |-> Packed(candidates[k], d)]

\* candidates[:10], each packed
PackedCandidates(candidates, d) ==
    LET shown == FirstN(candidates, MaxCandidates)
    IN [k \in 1..Len(shown) |-> Packed(shown[k], d)]

\* the branch for a lead without a canonical domain
NoEmailDomainOutcome ==
    [id |-> <<>>, name |-> <<>>, reason |-> "NoEmailDomain",
     confidence |-> "Low", count |-> 0, candidates |-> <<>>]

\* the branch for a personal domain
PersonalEmailOutcome ==
    [id |-> <<>>, name |-> <<>>, reason |-> "PersonalEmail",
     confidence |-> "Low", count |-> 0, candidates |-> <<>>]

\* candidates = domain_to_accounts.get(d, []) and the three branches on its length
LookupOutcome(d, index) ==
    LET candidates == DictGet(index, d, <<>>)
    IN IF Len(candidates) = 1
       THEN [id |-> safe_str(candidates[1].AccountId),
             name |-> safe_str(candidates[1].AccountName),
             reason |-> "DomainMatch", confidence |-> "High",
             count |-> Len(candidates),
             candidates |-> Packed(candidates[1], d)]
       ELSE IF Len(candidates) > 1
       THEN [id |-> <<>>, name |-> <<>>, reason |-> "Ambiguous",
             confidence |-> "Medium", count |-> Len(candidates),
             candidates |-> join(<<" ", "|", "|", " ">>,
                                 PackedCandidates(candidates, d))]
       ELSE [id |-> <<>>, name |-> <<>>, reason |-> "NoMatch",
             confidence |-> "Low", count |-> Len(candidates),
             candidates |-> <<>>]

\* faulty variant: the index is consulted before the personal-domain test
OutcomeLookupFirst(d, personal, index) ==
    IF ~Truthy(d) THEN NoEmailDomainOutcome
    ELSE IF DictGet(index, d, <<>>) # <<>> THEN LookupOutcome(d, index)
    ELSE IF personal /\ d \in DEFAULT_PERSONAL_DOMAINS THEN PersonalEmailOutcome
    ELSE LookupOutcome(d, index)

\* the outcome of one pass of the loop over work["DomainCanonical"]
Outcome(d, personal, index) ==
    IF ~Truthy(d) THEN NoEmailDomainOutcome
    ELSE IF personal /\ d \in DEFAULT_PERSONAL_DOMAINS THEN PersonalEmailOutcome
    ELSE LookupOutcome(d, index)

\* one pass of the loop: the next lead's outcome is appended to the six lists
ClassifyLead ==
    /\ pc = "classify"
    /\ Len(reasons) < Len(work.rows)
    /\ LET d == work.rows[Len(reasons) + 1]["DomainCanonical"]
           o == Outcome(d, treat_personal_as_unmatched, domain_to_accounts)
       IN /\ suggested_ids' = Append(suggested_ids, o.id)
          /\ suggested_names' = Append(suggested_names, o.name)
          /\ reasons' = Append(reasons, o.reason)
          /\ confidences' = Append(confidences, o.confidence)
          /\ candidate_counts' = Append(candidate_counts, o.count)
          /\ candidates_list' = Append(candidates_list, o.candidates)
    /\ UNCHANGED << pc, collapse_subdomains, treat_personal_as_unmatched,
                    sf_accounts, alias_df, leads, accounts_df,
                    domain_to_accounts, alias_map, work, matched_df,
                    ambiguous_df, unmatched_df, enriched_df, dedupe_df,
                    nd_impl, nd_input, nd_results >>

\* the six outcome columns and the three review views
AssignColumns ==
    /\ pc = "classify"
    /\ Len(reasons) = Len(work.rows)
    /\ work' = WithColumn(WithColumn(WithColumn(WithColumn(WithColumn(WithColumn(work,
                   "SuggestedAccountId", suggested_ids),
                   "SuggestedAccountName", suggested_names),
                   "MatchReason", reasons),
                   "MatchConfidence", confidences),
                   "MatchCandidatesCount", candidate_counts),
                   "MatchCandidates", candidates_list)
    /\ matched_df' = WhereRows(work',
           [i \in 1..Len(work'.rows) |-> work'.rows[i]["MatchConfidence"] = "High"])
    /\ ambiguous_df' = WhereRows(work',
           [i \in 1..Len(work'.rows) |-> work'.rows[i]["MatchReason"] = "Ambiguous"])
    /\ unmatched_df' = WhereRows(work',
           [i \in 1..Len(work'.rows) |->
               work'.rows[i]["MatchReason"] \in {"NoMatch", "NoEmailDomain", "PersonalEmail"}])
    /\ pc' = "dedupe"
    /\ UNCHANGED << collapse_subdomains, treat_personal_as_unmatched,
                    sf_accounts, alias_df, leads, accounts_df,
                    domain_to_accounts, alias_map, suggested_ids,
                    suggested_names, reasons, confidences, candidate_counts,
                    candidates_list, enriched_df, dedupe_df, nd_impl,
                    nd_input, nd_results >>

-----------------------------------------------------------------------------
(* Duplicate grouper                                                       *)

EmailExact == <<"E", "m", "a", "i", "l", "E", "x", "a", "c", "t">>

\* a < b for two str, by code point
RECURSIVE StrLess(_, _)
StrLess(a, b) ==
    IF b = <<>> THEN FALSE
    ELSE IF a = <<>> THEN TRUE
    ELSE IF Head(a) = Head(b) THEN StrLess(Tail(a), Tail(b))
    ELSE Ord[Head(a)] < Ord[Head(b)]

\* the decimal digits of n >= 0
RECURSIVE DigitsOf(_)
DigitsOf(n) ==
    IF n < 10 THEN <<Digits[n + 1]>>
    ELSE DigitsOf(n \div 10) \o <<Digits[(n % 10) + 1]>>

PadWidth == 3

\* f"{n:03d}"
RECURSIVE ZeroPad(_, _)
ZeroPad(ds, width) == IF Len(ds) >= width THEN ds ELSE ZeroPad(<<"0">> \o ds, width)

\* f"DUP-{x+1:03d}"
GroupIdOf(x) == <<"D", "U", "P", "-">> \o ZeroPad(DigitsOf(x + 1), PadWidth)

\* faulty variant: groupby(sort=False), groups numbered as first seen
ngroupFirstSeen(df, col) ==
    [i \in 1..Len(df.rows) |->
        LET first == CHOOSE j \in 1..i : /\ df.rows[j][col] = df.rows[i][col]
                                         /\ \A k \in 1..(j - 1) :
                                                df.rows[k][col] # df.rows[i][col]
        IN Cardinality({df.rows[k][col] : k \in 1..(first - 1)})]

\* df.groupby(col).ngroup(): groupby sorts the keys, and a row's number is
\* the rank of its key among the distinct keys
ngroup(df, col) ==
    LET keys == {df.rows[i][col] : i \in 1..Len(df.rows)}
    IN [i \in 1..Len(df.rows) |->
           Cardinality({k \in keys : StrLess(k, df.rows[i][col])})]

\* df[cols]
Project(df, cols) ==
    [columns |-> cols,
     rows |-> [i \in 1..Len(df.rows) |->
                  [c \in {cols[k] : k \in 1..Len(cols)} |-> df.rows[i][c]]]]

\* rows.drop_duplicates(): the first of equal rows is kept
RECURSIVE DropDuplicateRows(_)
DropDuplicateRows(rows) ==
    IF rows = <<>> THEN <<>>
    ELSE LET init == DropDuplicateRows(SubSeq(rows, 1, Len(rows) - 1))
             last == rows[Len(rows)]
         IN IF \E i \in 1..Len(init) : init[i] = last THEN init
            ELSE Append(init, last)

drop_duplicates(df) == [columns |-> df.columns, rows |-> DropDuplicateRows(df.rows)]

\* left.merge(right, on=on, how="left"): every left row, in order, once per
\* right row with the same key, or once with NaN in right's columns
RECURSIVE MergeLeftRows(_, _, _, _)
MergeLeftRows(left, right, on, others) ==
    IF left = <<>> THEN <<>>
    ELSE LET l == Head(left)
             matches == SelectSeq(right, LAMBDA r : r[on] = l[on])
             joined ==
                 IF matches = <<>>
                 THEN << l @@ [c \in others |-> NaN] >>
                 ELSE [k \in 1..Len(matches) |->
                          l @@ [c \in others |-> matches[k][c]]]
         IN joined \o MergeLeftRows(Tail(left), right, on, others)

merge_left(left, right, on) ==
    LET others == SelectSeq(right.columns, LAMBDA c : c # on)
    IN [columns |-> left.columns \o others,
        rows |-> MergeLeftRows(left.rows, right.rows, on,
                               {others[k] : k \in 1..Len(others)})]

\* df[col] = values, for a column the frame holds
ReplaceColumn(df, col, values) ==
    [columns |-> df.columns,
     rows |-> [i \in 1..Len(df.rows) |-> [df.rows[i] EXCEPT ![col] = values[i]]]]

fillna(values, v) == [i \in 1..Len(values) |-> IF isna(values[i]) THEN v ELSE values[i]]

Constant(df, v) == [i \in 1..Len(df.rows) |-> v]

\* faulty variant: drop_duplicates() is missing
DuplicateFlagsKept(dup_df, col) ==
    Project(dup_df, <<col, "DuplicateGroupId", "DuplicateReason">>)

\* the flags table merged back: one row per raw e-mail of a duplicated lead
DuplicateFlags(dup_df, col) ==
    drop_duplicates(Project(dup_df, <<col, "DuplicateGroupId", "DuplicateReason">>))

\* faulty variant: only the empty string is left out
ValidEmailNotEmpty(norm) == norm # <<>>

\* valid = ne("") & ne("nan")
ValidEmail(norm) == norm # <<>> /\ norm # <<"n", "a", "n">>

\* faulty variant: duplicated() with its default keep="first", which leaves
\* the first occurrence of each value unmarked
duplicatedKeepFirst(values) ==
    [i \in 1..Len(values) |-> \E j \in 1..(i - 1) : values[j] = values[i]]

\* Series.duplicated(keep=False): the value occurs in more than one row
duplicated(values) ==
    [i \in 1..Len(values) |->
        \E j \in 1..Len(values) : j # i /\ values[j] = values[i]]

dedupe_by_email(df, col) ==
    LET work0 == WithColumn(df, "_email_norm",
                     [i \in 1..Len(df.rows) |-> lower(strip(str(df.rows[i][col])))])
        norm == Column(work0, "_email_norm")
        valid == [i \in 1..Len(norm) |-> ValidEmail(norm[i])]
        dup_mask == [i \in 1..Len(norm) |-> valid[i] /\ duplicated(norm)[i]]
        dup0 == WhereRows(work0, dup_mask)
    IN IF dup0.rows = <<>>
       THEN [enriched |->
                DropColumn(
                    WithColumn(WithColumn(WithColumn(work0,
                        "IsPotentialDuplicate", Constant(work0, FALSE)),
                        "DuplicateGroupId", Constant(work0, <<>>)),
                        "DuplicateReason", Constant(work0, <<>>)),
                    "_email_norm"),
             dedupe |-> EmptyFrame]
       ELSE LET numbers == ngroup(dup0, "_email_norm")
                dup1 == WithColumn(dup0, "DuplicateGroupId",
                            [i \in 1..Len(dup0.rows) |-> GroupIdOf(numbers[i])])
                dup_df == WithColumn(dup1, "DuplicateReason", Constant(dup1, EmailExact))
                merged == merge_left(work0, DuplicateFlags(dup_df, col), col)
                flagged == WithColumn(merged, "IsPotentialDuplicate",
                               [i \in 1..Len(merged.rows) |->
                                   ~isna(merged.rows[i]["DuplicateGroupId"])])
                filled == ReplaceColumn(
                              ReplaceColumn(flagged, "DuplicateGroupId",
                                  fillna(Column(flagged, "DuplicateGroupId"), <<>>)),
                              "DuplicateReason",
                              fillna(Column(flagged, "DuplicateReason"), <<>>))
            IN [enriched |-> DropColumn(filled, "_email_norm"),
                dedupe |-> DropColumn(dup_df, "_email_norm")]

DedupeByEmail ==
    /\ pc = "dedupe"
    /\ LET result == dedupe_by_email(work, email_col)
       IN /\ enriched_df' = result.enriched
          /\ dedupe_df' = result.dedupe
    /\ pc' = "done"
    /\ UNCHANGED << collapse_subdomains, treat_personal_as_unmatched,
                    sf_accounts, alias_df, leads, accounts_df,
                    domain_to_accounts, alias_map, work, suggested_ids,
                    suggested_names, reasons, confidences, candidate_counts,
                    candidates_list, matched_df, ambiguous_df, unmatched_df,
                    nd_impl, nd_input, nd_results >>

Next ==
    \/ LoadLibrary
    \/ ExtractDomains
    \/ ClassifyLead
    \/ AssignColumns
    \/ DedupeByEmail

-----------------------------------------------------------------------------
(* Inputs: the tables the loaders hand to the script                       *)

SeqsUpTo(S, n) == UNION {[1..k -> S] : k \in 0..n}

\* a lead batch with the one mapped column
LeadFrame(emails) ==
    [columns |-> <<email_col>>,
     rows |-> [i \in 1..Len(emails) |-> (email_col :> emails[i])]]

\* an account directory: row i has its own id and name
AccountTable(templates) ==
    [i \in 1..Len(templates) |->
        [AccountId |-> <<"A">> \o DigitsOf(i),
         AccountName |-> IF templates[i].named THEN <<"N">> \o DigitsOf(i) ELSE NaN,
         Website |-> templates[i].website]]

AliasRow(inp, can) == [InputDomain |-> inp, CanonicalDomain |-> can]

\* nothing computed yet
Unstarted ==
    /\ accounts_df = <<>>
    /\ domain_to_accounts = EmptyDict
    /\ alias_map = EmptyDict
    /\ work = EmptyFrame
    /\ suggested_ids = <<>>
    /\ suggested_names = <<>>
    /\ reasons = <<>>
    /\ confidences = <<>>
    /\ candidate_counts = <<>>
    /\ candidates_list = <<>>
    /\ matched_df = EmptyFrame
    /\ ambiguous_df = EmptyFrame
    /\ unmatched_df = EmptyFrame
    /\ enriched_df = EmptyFrame
    /\ dedupe_df = EmptyFrame

NormalizerIdle ==
    /\ nd_impl = "app"
    /\ nd_input = None
    /\ nd_results = <<>>

MaxAccounts == 2
MaxAliases == 1
MaxLeads == 1

AccountTemplates ==
    { [named |-> TRUE, website |-> <<"h", "t", "t", "p", "s", ":", "/", "/", "w", "w", "w", ".", "A", "c", "m", "e", ".", "c", "o", "m", "/", "a">>],
      [named |-> FALSE, website |-> <<"g", "m", "a", "i", "l", ".", "c", "o", "m">>],
      [named |-> TRUE, website |-> NaN] }

AliasRows ==
    { AliasRow(<<"a", "c", "m", "e", ".", "i", "o">>, <<"A", "c", "m", "e", ".", "c", "o", "m">>),
      AliasRow(<<"a", "c", "m", "e", ".", "i", "o">>, <<"g", "m", "a", "i", "l", ".", "c", "o", "m">>) }

LeadEmails ==
    { NaN,
      <<"a", "c", "m", "e", ".", "c", "o", "m">>,
      <<"x", "@">>,
      <<" ", "A", "n", "n", "@", "b", "@", "A", "c", "m", "e", ".", "c", "o", "m", " ">>,
      <<"b", "o", "b", "@", "g", "m", "a", "i", "l", ".", "c", "o", "m">>,
      <<"c", "y", "@", "m", "a", "i", "l", ".", "a", "c", "m", "e", ".", "i", "o">> }

Init ==
    /\ pc = "start"
    /\ collapse_subdomains \in BOOLEAN
    /\ treat_personal_as_unmatched \in BOOLEAN
    /\ sf_accounts \in {AccountTable(ts) : ts \in SeqsUpTo(AccountTemplates, MaxAccounts)}
    /\ alias_df \in SeqsUpTo(AliasRows, MaxAliases)
    /\ leads \in {LeadFrame(es) : es \in SeqsUpTo(LeadEmails, MaxLeads)}
    /\ Unstarted
    /\ NormalizerIdle

Spec == Init /\ [][Next]_vars

(* Larger batches against a fixed library                                  *)

MaxBatch == 4

BatchEmails ==
    { NaN,
      <<"b", "@", "x", ".", "c", "o">>,
      <<" ", "B", "@", "X", ".", "c", "o">>,
      <<"a", "@", "x", ".", "c", "o">>,
      <<"N", "a", "N">>,
      <<" ", " ">>,
      <<"c", "@", "/">> }

InitBatch ==
    /\ pc = "start"
    /\ collapse_subdomains = TRUE
    /\ treat_personal_as_unmatched = TRUE
    /\ sf_accounts = AccountTable(<<[named |-> TRUE, website |-> <<"x", ".", "c", "o">>]>>)
    /\ alias_df = <<>>
    /\ leads \in {LeadFrame(es) : es \in SeqsUpTo(BatchEmails, MaxBatch)}
    /\ Unstarted
    /\ NormalizerIdle

SpecBatch == InitBatch /\ [][Next]_vars

(* Long directories: many accounts under one domain                        *)

MaxDirectory == 12

\* a directory of n rows: every row is an account of acme.com, except that
\* with gap > 0 every (gap+1)-th row is an account of another site or of none
Directory(n, gap) ==
    AccountTable([i \in 1..n |->
        IF gap > 0 /\ i % (gap + 1) = 0
        THEN [named |-> FALSE, website |-> IF i % 2 = 0 THEN <<"b", ".", "o", "r", "g">> ELSE NaN]
        ELSE [named |-> TRUE, website |-> <<"w", "w", "w", ".", "a", "c", "m", "e", ".", "c", "o", "m">>]])

InitAmbiguous ==
    /\ pc = "start"
    /\ collapse_subdomains \in BOOLEAN
    /\ treat_personal_as_unmatched \in BOOLEAN
    /\ sf_accounts \in {Directory(n, gap) : n \in 0..MaxDirectory, gap \in 0..2}
    /\ alias_df = <<>>
    /\ leads \in {LeadFrame(<<e>>) : e \in {<<"a", "@", "a", "c", "m", "e", ".", "c", "o", "m">>, <<"a", "@", "b", ".", "o", "r", "g">>}}
    /\ Unstarted
    /\ NormalizerIdle

SpecAmbiguous == InitAmbiguous /\ [][Next]_vars

(* Alias directories with repeated input domains                           *)

MaxAliasRows == 3

AliasChoices ==
    { AliasRow(<<"a", "c", "m", "e", ".", "i", "o">>, <<"A", "c", "m", "e", ".", "c", "o", "m">>),
      AliasRow(<<"h", "t", "t", "p", ":", "/", "/", "w", "w", "w", ".", "A", "C", "M", "E", ".", "i", "o", "/", "x">>, <<"b", ".", "o", "r", "g">>),
      AliasRow(<<"a", "c", "m", "e", ".", "i", "o">>, NaN),
      AliasRow(<<"/">>, <<"A", "c", "m", "e", ".", "c", "o", "m">>),
      AliasRow(<<"A", "c", "m", "e", ".", "c", "o", "m">>, <<" ">>) }

InitAlias ==
    /\ pc = "start"
    /\ collapse_subdomains \in BOOLEAN
    /\ treat_personal_as_unmatched = TRUE
    /\ sf_accounts = AccountTable(<<[named |-> TRUE, website |-> <<"A", "c", "m", "e", ".", "c", "o", "m">>]>>)
    /\ alias_df \in SeqsUpTo(AliasChoices, MaxAliasRows)
    /\ leads \in {LeadFrame(<<e>>) : e \in {<<"a", "@", "a", "c", "m", "e", ".", "i", "o">>, <<"a", "@", "a", "c", "m", "e", ".", "c", "o", "m">>, <<"a", "@", "b", ".", "o", "r", "g">>}}
    /\ Unstarted
    /\ NormalizerIdle

SpecAlias == InitAlias /\ [][Next]_vars


-----------------------------------------------------------------------------
(* Repeated calls of normalize_domain on its own result                    *)

MaxParts == 3
MaxCalls == 2

Fragments == { <<"h", "t", "t", "p", ":", "/", "/">>,
              <<"h", "t", "t", "p", "s", ":", "/", "/">>,
              <<"w", "w", "w", ".">>,
              <<"a">>,
              <<"B">>,
              <<".">>,
              <<"/">>,
              <<"?">>,
              <<"#">>,
              <<" ">> }

\* every concatenation of at most n fragments
RECURSIVE Concats(_)
Concats(n) ==
    IF n = 0 THEN {<<>>}
    ELSE LET shorter == Concats(n - 1)
         IN shorter \cup {s \o f : s \in shorter, f \in Fragments}

ExampleDomains == { None, NaN,
                    <<"h", "t", "t", "p", "s", ":", "/", "/", "w", "w", "w", ".", "A", "c", "m", "e", ".", "c", "o", "m", "/", "p", "a", "t", "h", "?", "x", "=", "1">>,
                    <<"m", "a", "i", "l", ".", "e", "u", ".", "a", "c", "m", "e", ".", "c", "o", "m">> }

DomainInputs == Concats(MaxParts) \cup ExampleDomains

InitNormalize ==
    /\ pc = "normalize"
    /\ collapse_subdomains \in BOOLEAN
    /\ treat_personal_as_unmatched = TRUE
    /\ sf_accounts = <<>>
    /\ alias_df = <<>>
    /\ leads = EmptyFrame
    /\ nd_impl \in {"app", "loaders"}
    /\ nd_input \in DomainInputs
    /\ nd_results = <<>>
    /\ Unstarted

CallNormalize(impl, domain, collapse) ==
    IF impl = "app" THEN normalize_domain(domain, collapse)
    ELSE loaders_normalize_domain(domain, collapse)

\* one more call, on the input first and then on the previous result
NormalizeCall ==
    /\ pc = "normalize"
    /\ Len(nd_results) < MaxCalls
    /\ LET arg == IF nd_results = <<>> THEN nd_input
                  ELSE nd_results[Len(nd_results)]
       IN nd_results' = Append(nd_results,
                               CallNormalize(nd_impl, arg, collapse_subdomains))
    /\ UNCHANGED << pc, collapse_subdomains, treat_personal_as_unmatched,
                    sf_accounts, alias_df, leads, accounts_df,
                    domain_to_accounts, alias_map, work, suggested_ids,
                    suggested_names, reasons, confidences, candidate_counts,
                    candidates_list, matched_df, ambiguous_df, unmatched_df,
                    enriched_df, dedupe_df, nd_impl, nd_input >>

NextNormalize == NormalizeCall

SpecNormalize == InitNormalize /\ [][NextNormalize]_vars

-----------------------------------------------------------------------------
(* Claims about the match classifier                                       *)

\* the canonical domain the script derived for lead i
CanonicalOf(i) == work.rows[i]["DomainCanonical"]

\* the accounts of the directory whose website normalises to d, in
\* directory order
AccountsUnder(d) ==
    SelectSeq(sf_accounts, LAMBDA a :
        normalize_website_to_domain(a.Website, collapse_subdomains) = d)

ExcludedAsPersonal(d) ==
    treat_personal_as_unmatched /\ d \in DEFAULT_PERSONAL_DOMAINS

Min(a, b) == IF a <= b THEN a ELSE b

\* C1: a lead gets DomainMatch, with confidence High, count 1 and the id and
\* name of the account, exactly when its canonical domain is present, is not
\* excluded as personal and belongs to exactly one account of the directory;
\* every other lead has an empty suggested account.
C1_DomainMatchIffSingleAccount ==
    \A i \in 1..Len(reasons) :
        LET d == CanonicalOf(i)
            under == AccountsUnder(d)
            single == Truthy(d) /\ ~ExcludedAsPersonal(d) /\ Len(under) = 1
        IN /\ (reasons[i] = "DomainMatch") <=> single
           /\ single => /\ confidences[i] = "High"
                        /\ candidate_counts[i] = 1
                        /\ suggested_ids[i] = safe_str(under[1].AccountId)
                        /\ suggested_names[i] = safe_str(under[1].AccountName)
           /\ ~single => /\ suggested_ids[i] = <<>>
                         /\ suggested_names[i] = <<>>

\* C1 witness: the run is over and a lead was matched to its one account.
C1_Witness ==
    /\ pc = "done"
    /\ \E i \in 1..Len(reasons) :
           /\ reasons[i] = "DomainMatch"
           /\ suggested_ids[i] # <<>>
           /\ Len(AccountsUnder(CanonicalOf(i))) = 1

\* C2: a lead whose canonical domain has n >= 2 accounts (and is not
\* excluded as personal) is Ambiguous with confidence Medium, no suggested
\* account, count n, and a candidate list of the first min(n, 10) of those
\* accounts in directory order, each packed id|name|domain.
C2_AmbiguousListsFirstTen ==
    \A i \in 1..Len(reasons) :
        LET d == CanonicalOf(i)
            under == AccountsUnder(d)
            n == Len(under)
        IN (Truthy(d) /\ ~ExcludedAsPersonal(d) /\ n >= 2) =>
              /\ reasons[i] = "Ambiguous"
              /\ confidences[i] = "Medium"
              /\ suggested_ids[i] = <<>>
              /\ suggested_names[i] = <<>>
              /\ candidate_counts[i] = n
              /\ candidates_list[i] =
                     join(<<" ", "|", "|", " ">>,
                          [k \in 1..Min(n, MaxCandidates) |->
                              safe_str(under[k].AccountId) \o <<"|">>
                                  \o safe_str(under[k].AccountName) \o <<"|">> \o d])

\* C2 witness: a lead with more than ten candidate accounts was classified.
C2_Witness ==
    /\ pc = "done"
    /\ \E i \in 1..Len(reasons) :
           /\ reasons[i] = "Ambiguous"
           /\ candidate_counts[i] > MaxCandidates
           /\ Len(AccountsUnder(CanonicalOf(i))) = candidate_counts[i]

\* C3: with treat_personal_as_unmatched set, a lead whose canonical domain
\* is a built-in personal domain is PersonalEmail, Low, count 0, no
\* candidates, whatever the directory holds under that domain; with the
\* flag clear the same lead is classified by the directory alone.
C3_PersonalDomains ==
    \A i \in 1..Len(reasons) :
        LET d == CanonicalOf(i)
            n == Len(AccountsUnder(d))
        IN (Truthy(d) /\ d \in DEFAULT_PERSONAL_DOMAINS) =>
              IF treat_personal_as_unmatched
              THEN /\ reasons[i] = "PersonalEmail"
                   /\ confidences[i] = "Low"
                   /\ candidate_counts[i] = 0
                   /\ candidates_list[i] = <<>>
              ELSE /\ candidate_counts[i] = n
                   /\ reasons[i] = IF n = 0 THEN "NoMatch"
                                   ELSE IF n = 1 THEN "DomainMatch"
                                   ELSE "Ambiguous"

\* C3 witness: a lead reached a personal domain through an alias, the
\* directory holds an account under that domain, and the lead is
\* PersonalEmail.
C3_Witness ==
    /\ pc = "done"
    /\ \E i \in 1..Len(reasons) :
           /\ reasons[i] = "PersonalEmail"
           /\ work.rows[i]["EmailDomainNormalized"] # CanonicalOf(i)
           /\ Len(AccountsUnder(CanonicalOf(i))) >= 1

\* the text after the last "@" of a trimmed, lower-cased e-mail
AfterLastAt(s) == LET parts == split(s, "@") IN strip(parts[Len(parts)])

\* the e-mail yields no domain: it is missing, holds no "@", or what follows
\* its last "@" normalises to nothing
WithoutDomain(e) ==
    \/ isna(e)
    \/ ~HasChar(e, "@")
    \/ normalize_domain(AfterLastAt(lower(strip(e))), collapse_subdomains) = None

MatchReasons == {"DomainMatch", "Ambiguous", "NoMatch", "NoEmailDomain", "PersonalEmail"}

\* C4: classification is total: the six result lists grow together, one
\* entry per lead, and once the loop is over every lead has one populated
\* outcome; a lead is NoEmailDomain (Low, count 0) exactly when its e-mail
\* is missing, holds no "@", or its domain normalises to absent.
C4_TotalClassification ==
    /\ Len(suggested_ids) = Len(reasons)
    /\ Len(suggested_names) = Len(reasons)
    /\ Len(confidences) = Len(reasons)
    /\ Len(candidate_counts) = Len(reasons)
    /\ Len(candidates_list) = Len(reasons)
    /\ Len(reasons) <= Len(leads.rows)
    /\ pc \in {"dedupe", "done"} =>
          /\ Len(work.rows) = Len(leads.rows)
          /\ \A i \in 1..Len(leads.rows) :
                /\ work.rows[i][email_col] = leads.rows[i][email_col]
                /\ work.rows[i]["MatchReason"] = reasons[i]
                /\ work.rows[i]["MatchReason"] \in MatchReasons
                /\ work.rows[i]["MatchConfidence"] \in {"High", "Medium", "Low"}
                /\ work.rows[i]["MatchCandidatesCount"] \in Nat
                /\ work.rows[i]["MatchCandidates"] \in Seq(STRING)
    /\ \A i \in 1..Len(reasons) :
          /\ (reasons[i] = "NoEmailDomain") <=> WithoutDomain(leads.rows[i][email_col])
          /\ reasons[i] = "NoEmailDomain" =>
                 confidences[i] = "Low" /\ candidate_counts[i] = 0

\* C4 witness: a batch of three or more leads is classified; one of them has
\* an "@" but no domain and is NoEmailDomain, another has a domain.
C4_Witness ==
    /\ pc = "done"
    /\ Len(leads.rows) >= 3
    /\ \E i \in 1..Len(reasons) :
           /\ HasChar(leads.rows[i][email_col], "@")
           /\ reasons[i] = "NoEmailDomain"
    /\ \E i \in 1..Len(reasons) : reasons[i] # "NoEmailDomain"

-----------------------------------------------------------------------------
(* Claims about the duplicate grouper                                      *)

\* the trimmed, lower-cased text of lead i's e-mail
NormEmail(i) == lower(strip(str(leads.rows[i][email_col])))

\* lead i has a valid e-mail that another lead of the batch shares
SharesEmail(i) ==
    /\ NormEmail(i) # <<>>
    /\ NormEmail(i) # <<"n", "a", "n">>
    /\ \E j \in 1..Len(leads.rows) : j # i /\ NormEmail(j) = NormEmail(i)

Flagged(i) == enriched_df.rows[i]["IsPotentialDuplicate"]

GroupOf(i) == enriched_df.rows[i]["DuplicateGroupId"]

\* C5: in the annotated batch a lead is flagged, with a non-empty group id
\* and the reason EmailExact, exactly when its normalised e-mail is valid and
\* another lead has the same one; every other lead is tagged false, "", "".
C5_FlaggedIffSharedEmail ==
    pc = "done" =>
        /\ Len(enriched_df.rows) >= Len(leads.rows)
        /\ \A i \in 1..Len(leads.rows) :
              IF SharesEmail(i)
              THEN /\ Flagged(i) = TRUE
                   /\ GroupOf(i) # <<>>
                   /\ enriched_df.rows[i]["DuplicateReason"] = EmailExact
              ELSE /\ Flagged(i) = FALSE
                   /\ GroupOf(i) = <<>>
                   /\ enriched_df.rows[i]["DuplicateReason"] = <<>>

\* C5 witness: the grouper ran on a batch holding a shared e-mail, which it
\* flagged, and two leads whose e-mail reads "nan", which it did not.
C5_Witness ==
    /\ pc = "done"
    /\ Len(enriched_df.rows) = Len(leads.rows)
    /\ \E i \in 1..Len(leads.rows) : SharesEmail(i) /\ Flagged(i)
    /\ \E i, j \in 1..Len(leads.rows) :
           /\ i # j
           /\ NormEmail(i) = <<"n", "a", "n">>
           /\ NormEmail(j) = <<"n", "a", "n">>
           /\ ~Flagged(i)

\* C6: after the grouper, two flagged leads carry the same group id exactly
\* when their normalised e-mails are equal, and the annotated batch has one
\* row per input lead, in the input order.
C6_OneGroupPerEmail ==
    pc = "done" =>
        /\ Len(enriched_df.rows) = Len(leads.rows)
        /\ \A i \in 1..Len(leads.rows) :
              enriched_df.rows[i][email_col] = leads.rows[i][email_col]
        /\ \A i, j \in 1..Len(leads.rows) :
              (Flagged(i) /\ Flagged(j)) =>
                  ((GroupOf(i) = GroupOf(j)) <=> (NormEmail(i) = NormEmail(j)))

\* C6 witness: the grouper ran on a batch with two groups, one of them
\* holding two different raw spellings of one e-mail.
C6_Witness ==
    /\ pc = "done"
    /\ Len(enriched_df.rows) = Len(leads.rows)
    /\ \E i, j \in 1..Len(leads.rows) :
           Flagged(i) /\ Flagged(j) /\ GroupOf(i) # GroupOf(j)
    /\ \E i, j \in 1..Len(leads.rows) :
           /\ Flagged(i) /\ Flagged(j) /\ GroupOf(i) = GroupOf(j)
           /\ leads.rows[i][email_col] # leads.rows[j][email_col]

\* the first row of the batch with lead i's normalised e-mail
FirstRow(i) == CHOOSE j \in 1..i : /\ NormEmail(j) = NormEmail(i)
                                   /\ \A k \in 1..(j - 1) : NormEmail(k) # NormEmail(i)

\* the normalised e-mails of the retained groups
GroupEmails == {NormEmail(i) : i \in {j \in 1..Len(leads.rows) : SharesEmail(j)}}

\* C7 (as stated): group ids are numbered in the order the groups are first
\* seen from the top of the batch: a group whose first row comes earlier has
\* the smaller id.
C7_NumberedAsFirstSeen ==
    pc = "done" =>
        \A i, j \in 1..Min(Len(leads.rows), Len(enriched_df.rows)) :
            (Flagged(i) /\ Flagged(j) /\ FirstRow(i) < FirstRow(j)) =>
                StrLess(GroupOf(i), GroupOf(j))

\* C7 (amended): group ids are DUP-NNN, zero-padded to 3 digits, numbered
\* from 001 in ascending order of the groups' normalised e-mails: a lead's id
\* is DUP- and one more than the number of groups whose e-mail is smaller.
C7_NumberedBySortedEmail ==
    pc = "done" =>
        \A i \in 1..Min(Len(leads.rows), Len(enriched_df.rows)) :
            Flagged(i) =>
                LET smaller == {e \in GroupEmails : StrLess(e, NormEmail(i))}
                    digits == ZeroPad(DigitsOf(Cardinality(smaller) + 1), PadWidth)
                IN /\ GroupOf(i) = <<"D", "U", "P", "-">> \o digits
                   /\ Len(digits) = PadWidth

\* C7 witness: the grouper ran on a batch whose first group in row order is
\* not its first group in e-mail order.
C7_Witness ==
    /\ pc = "done"
    /\ Len(enriched_df.rows) = Len(leads.rows)
    /\ \E i, j \in 1..Len(leads.rows) :
           /\ Flagged(i) /\ Flagged(j)
           /\ FirstRow(i) < FirstRow(j)
           /\ StrLess(NormEmail(j), NormEmail(i))
           /\ GroupOf(j) = <<"D", "U", "P", "-", "0", "0", "1">>
           /\ GroupOf(i) = <<"D", "U", "P", "-", "0", "0", "2">>

-----------------------------------------------------------------------------
(* Claims about the alias resolver                                         *)

AliasInput(k) == normalize_domain(alias_df[k].InputDomain, collapse_subdomains)

AliasCanonical(k) == normalize_domain(alias_df[k].CanonicalDomain, collapse_subdomains)

\* the alias records that normalise to the input domain d with both sides present
RecordsFor(d) ==
    {k \in 1..Len(alias_df) :
        AliasInput(k) = d /\ AliasInput(k) # None /\ AliasCanonical(k) # None}

Last(S) == CHOOSE k \in S : \A j \in S : j <= k

-----------------------------------------------------------------------------
(* Claims about normalize_domain, under SpecNormalize                      *)

Www == <<"w", "w", "w", ".">>

\* a result the next call would still rewrite: it starts with a www. label
\* or with white space
StartsWithWwwOrSpace(d) ==
    d # None /\ (startswith(d, Www) \/ (d # <<>> /\ Head(d) \in Whitespace))

\* C8 (as stated): normalize_domain is idempotent: calling it on its own
\* result returns that result, for both normalisers and both settings of
\* collapse_subdomains.
C8_Idempotent ==
    \A k \in 2..Len(nd_results) : nd_results[k] = nd_results[k - 1]

\* C8 (amended): calling normalize_domain on its own result returns that
\* result whenever the result is absent or starts neither with a "www."
\* label nor with white space.
C8_IdempotentOnStableResults ==
    \A k \in 2..Len(nd_results) :
        ~StartsWithWwwOrSpace(nd_results[k - 1])
            => nd_results[k] = nd_results[k - 1]

\* C8 witness: the first call rewrote a URL into a domain and the second
\* call returned that domain unchanged.
C8_Witness ==
    /\ Len(nd_results) = 2
    /\ nd_input \notin {None, NaN}
    /\ nd_results[1] # None
    /\ nd_results[1] # nd_input
    /\ ~StartsWithWwwOrSpace(nd_results[1])
    /\ nd_results[2] = nd_results[1]

\* C9: the normalize_domain the enrichment pipeline calls (app.py) cuts its
\* argument at the first "/", "?" or "#", so its result is absent or a
\* non-empty string holding none of the three characters.
C9_NoPathQueryFragment ==
    nd_impl = "app" =>
        \A k \in 1..Len(nd_results) :
            \/ nd_results[k] = None
            \/ /\ nd_results[k] # <<>>
               /\ ~HasChar(nd_results[k], "/")
               /\ ~HasChar(nd_results[k], "?")
               /\ ~HasChar(nd_results[k], "#")

-----------------------------------------------------------------------------
(* C11: the duplicate-only table                                           *)

\* the rows of the annotated batch that are flagged, in batch order
FlaggedRows == SelectSeq(enriched_df.rows, LAMBDA r : r["IsPotentialDuplicate"])

\* a row without its IsPotentialDuplicate field
WithoutFlag(r) == [c \in (DOMAIN r) \ {"IsPotentialDuplicate"} |-> r[c]]

\* C11 as stated: the duplicate-only table has the columns of the annotated
\* batch, IsPotentialDuplicate included, and holds exactly the flagged rows
\* of the annotated batch.
C11_SameColumnsFlaggedRows ==
    pc = "done" =>
        /\ dedupe_df.columns = enriched_df.columns
        /\ dedupe_df.rows = FlaggedRows

\* C11 amended: when no lead is flagged the duplicate-only table is the empty
\* table, without rows and without columns; otherwise its columns are those
\* of the annotated batch without IsPotentialDuplicate, in the same order,
\* and its rows are exactly the flagged rows of the annotated batch, in batch
\* order, with the same values in those columns.
C11_FlaggedRowsWithoutFlagColumn ==
    pc = "done" =>
        IF FlaggedRows = <<>>
        THEN dedupe_df = [columns |-> <<>>, rows |-> <<>>]
        ELSE /\ dedupe_df.columns =
                    SelectSeq(enriched_df.columns,
                              LAMBDA c : c # "IsPotentialDuplicate")
             /\ "DuplicateGroupId" \in {dedupe_df.columns[k] :
                                            k \in 1..Len(dedupe_df.columns)}
             /\ dedupe_df.rows =
                    [k \in 1..Len(FlaggedRows) |-> WithoutFlag(FlaggedRows[k])]

\* C11 witness: the grouper ran on a batch with a duplicate group spelled in
\* two ways and an unflagged lead placed before it, and returned a
\* duplicate-only table with fewer rows than the batch.
C11_Witness ==
    /\ pc = "done"
    /\ Len(dedupe_df.rows) >= 2
    /\ Len(dedupe_df.rows) < Len(enriched_df.rows)
    /\ ~enriched_df.rows[1]["IsPotentialDuplicate"]
    /\ \E i, j \in 1..Len(dedupe_df.rows) :
           /\ dedupe_df.rows[i]["DuplicateGroupId"] = dedupe_df.rows[j]["DuplicateGroupId"]
           /\ dedupe_df.rows[i][email_col] # dedupe_df.rows[j][email_col]

=============================================================================
